---- MODULE Spec2Model ----
(***************************************************************************)
(* A model of tc.py, the command line script that triggers TeamCity builds. *)
(*                                                                         *)
(* Text is modelled as a sequence of tokens.  The literal pieces of the    *)
(* two templates are tokens of their own, the double quote is the token Q, *)
(* and caller supplied strings are sequences over Alphabet, which contains *)
(* Q because nothing in the script restricts what a caller may type.       *)
(***************************************************************************)
EXTENDS Integers, Sequences, FiniteSets, TLC

VARIABLES
    pc,        \* position of control: "init", "linux", "har", "await", "returned", "done", "pure", "called"
    depth,     \* number of nested TC.__init__ frames entered through dispatch
    first,     \* the first command line argument of the current TC(...) call, <<>> before it is read
    handler,   \* the build handler the dispatch invoked, "none" before
    PARSER,    \* the options registered on the module level _PARSER (with its group _REQUIRED)
    subargs,   \* the options handed to the handler's parser, <<>> before
    args,      \* the namespace parse_args returned, <<>> before
    posted,    \* the sequence of HTTP POSTs issued by this process
    resp,      \* the response to the last POST, <<>> before
    stdout,    \* the sequence of printed items
    exitCode,  \* the exit status of the process, -1 while it runs
    raised,    \* the uncaught exception that ended the call, "none" otherwise
    calls,     \* number of TC(...) calls made in this process
    fcall,     \* the last direct call of a module level function
    fret       \* and what it returned

vars == <<pc, depth, first, handler, PARSER, subargs, args, posted, resp,
          stdout, exitCode, raised, calls, fcall, fret>>

----------------------------------------------------------------------------
(* Bounds *)

MaxLen == 2      \* longest caller supplied string, in tokens
MaxProps == 2    \* most entries of a property map
MaxSegs == 2     \* most path segments of a base URL
MaxDepth == 2    \* most nested re-entries of TC.__init__
MaxCalls == 2    \* most TC(...) calls in one process

----------------------------------------------------------------------------
(* Text *)

Q == "\""

Alphabet == {"a", Q}

RECURSIVE SeqsUpTo(_, _)
SeqsUpTo(S, n) ==
    IF n = 0 THEN {<<>>}
    ELSE LET shorter == SeqsUpTo(S, n - 1)
         IN  shorter \cup {Append(s, x) : s \in {t \in shorter : Len(t) = n - 1}, x \in S}

Strings == SeqsUpTo(Alphabet, MaxLen)

RECURSIVE Flatten(_)
Flatten(ss) == IF ss = <<>> THEN <<>> ELSE Head(ss) \o Flatten(Tail(ss))

\* str.format: every placeholder of the template is replaced by its value,
\* every other piece is copied; the inserted values are not scanned again.
Format(template, subst) ==
    Flatten([i \in 1..Len(template) |->
                IF template[i] \in DOMAIN subst THEN subst[template[i]]
                ELSE <<template[i]>>])

----------------------------------------------------------------------------
(* Constants of the script *)

HEADERS == [Accept |-> "application/json", ContentType |-> "application/xml"]

PROP_OPEN == "\n    <property name="
PROP_VALUE == " value="
PROP_CLOSE == "/>"
BUILD_OPEN == "\n<build personal="
BUILD_BRANCH == " branchName="
BUILDTYPE_OPEN == ">\n  <buildType id="
BUILDTYPE_CLOSE == "/>\n  <comment><text>Triggered from CLI</text></comment>\n  <properties>"
BUILD_CLOSE == "\n  </properties>\n</build>\n"

REQUESTBASE ==
    << BUILD_OPEN, Q, "{personal}", Q, BUILD_BRANCH, Q, "{branch}", Q,
       BUILDTYPE_OPEN, Q, "{buildid}", Q, BUILDTYPE_CLOSE,
       PROP_OPEN, Q, "remote", Q, PROP_VALUE, Q, "{remote}", Q, PROP_CLOSE,
       PROP_OPEN, Q, "branch", Q, PROP_VALUE, Q, "{branch}", Q, PROP_CLOSE,
       "{props}",
       BUILD_CLOSE >>

REQUESTPROPERTYBASE == << PROP_OPEN, Q, "{name}", Q, PROP_VALUE, Q, "{value}", Q, PROP_CLOSE >>

NEO4JLINUX_ID == <<"JonasHaRequests_Neo4jCustom">>
HAR_ID == <<"JonasHaRequests_HarBranchArtifacts">>

LINUX_JDKS == <<"openjdk-8", "openjdk-7", "oracle-jdk-8", "oracle-jdk-7", "ibmjdk-8", "ibmjdk-7">>

MVN_PREFIX == "-DfailIfNoTests=false -Dmaven.test.failure.ignore=true --show-version "

ENDPOINT == <<"httpAuth", "/", "app", "/", "rest", "/", "buildQueue">>

----------------------------------------------------------------------------
(* Pure functions *)

\* A property map is a sequence of <<name, value>> pairs with distinct names,
\* in the iteration order of the dict.
RECURSIVE dict_as_properties(_)
dict_as_properties(props) ==
    IF props = <<>> THEN <<>>
    ELSE Format(REQUESTPROPERTYBASE,
                [n \in {"{name}", "{value}"} |->
                    IF n = "{name}" THEN Head(props)[1] ELSE Head(props)[2]])
         \o dict_as_properties(Tail(props))

\* str(personal).lower()
str_lower(personal) == IF personal THEN <<"true">> ELSE <<"false">>

\* props is <<>> for None and <<fragment>> otherwise
request_xml(buildid, personal, branch, remote, props) ==
    LET p == IF props = <<>> THEN <<>> ELSE props[1]
    IN  Format(REQUESTBASE,
               [n \in {"{buildid}", "{remote}", "{branch}", "{props}", "{personal}"} |->
                   CASE n = "{buildid}" -> buildid
                     [] n = "{remote}" -> remote
                     [] n = "{branch}" -> branch
                     [] n = "{props}" -> p
                     [] n = "{personal}" -> str_lower(personal)])

tc_mvn_args(original) == <<MVN_PREFIX>> \o original

\* A base URL is <<origin>> followed by its path, "/" and segments being tokens.
RECURSIVE LastSlash(_)
LastSlash(url) ==
    IF url = <<>> THEN 0
    ELSE IF url[Len(url)] = "/" THEN Len(url)
    ELSE LastSlash(SubSeq(url, 1, Len(url) - 1))

\* urlparse.urljoin(base, rel) for a relative path rel: the path of the base
\* is cut after its last "/" and rel is appended; a base without a path gets "/".
urljoin(base, rel) ==
    IF LastSlash(base) = 0 THEN base \o <<"/">> \o rel
    ELSE SubSeq(base, 1, LastSlash(base)) \o rel

----------------------------------------------------------------------------
(* argparse *)

\* An optional value is <<>> when it is not given and <<v>> when it is.
Given(o) == o # <<>>

Options == {"user", "password", "branch", "remote", "teamcity", "personal",
            "maven_goals", "maven_args", "jdk", "arguments"}

\* _PARSER after import: -u and -p live in its group _REQUIRED
PARSER0 == [options |-> {"user", "password", "remote", "teamcity", "personal"},
            required |-> {"user", "password"}]

NEO4JPARSERBASE == [options |-> {"maven_goals", "maven_args", "branch"},
                    required |-> {"branch"}]

Defaults ==
    [o \in Options |->
        CASE o = "remote" -> <<"origin">>
          [] o = "teamcity" -> <<"https://build.neohq.net">>
          [] o = "personal" -> FALSE
          [] o = "maven_goals" -> <<"clean verify">>
          [] o = "maven_args" -> <<"-DrunITs -DskipBrowser">>
          [] o = "jdk" -> <<LINUX_JDKS[1]>>
          [] o = "arguments" -> <<"-ha-cluster-size=3 -threads=10 -jvm-mode=separate -time=7200 -history -myknocks -lock_manager=forseti">>
          [] OTHER -> <<>>]

\* add_argument: <<>> stands for the ArgumentError argparse raises when the
\* option string is registered already, <<parser>> is the extended parser.
add_argument(parser, opt, required) ==
    IF opt \in parser.options THEN <<>>
    ELSE << [options |-> parser.options \cup {opt},
             required |-> parser.required \cup (IF required THEN {opt} ELSE {})] >>

\* ArgumentParser(parents=[a, b]): every action of the parents is added
parents2(a, b) ==
    IF a.options \cap b.options # {} THEN <<>>
    ELSE << [options |-> a.options \cup b.options,
             required |-> a.required \cup b.required] >>

Choices(seq) == {seq[i] : i \in 1..Len(seq)}

parse_args_unchecked(parser, choices, sub) ==
    IF sub.help THEN [kind |-> "help"]
    ELSE IF \/ sub.extra
            \/ /\ "jdk" \in parser.options
               /\ Given(sub["jdk"])
               /\ sub["jdk"][1] \notin choices
         THEN [kind |-> "error"]
    ELSE [kind |-> "ok",
          ns |-> [o \in parser.options |->
                    IF Given(sub[o]) THEN sub[o][1] ELSE Defaults[o]]]

\* parse_args: "help" when -h comes first, "error" for what argparse rejects
\* (both leave through exit), else the namespace with the defaults filled in.
\* sub.extra says that the command line holds a token the parser does not know.
parse_args(parser, choices, sub) ==
    IF sub.help THEN [kind |-> "help"]
    ELSE IF \/ sub.extra
            \/ \E o \in parser.required : ~Given(sub[o])
            \/ /\ "jdk" \in parser.options
               /\ Given(sub["jdk"])
               /\ sub["jdk"][1] \notin choices
         THEN [kind |-> "error"]
    ELSE [kind |-> "ok",
          ns |-> [o \in parser.options |->
                    IF Given(sub[o]) THEN sub[o][1] ELSE Defaults[o]]]

----------------------------------------------------------------------------
(* Inputs *)

\* What hasattr(self, command) finds on a TC object
Handlers == {"linux", "har"}
Reentrant == {"__init__"}
Quiet == {"__eq__"}
NotCallable == {"__doc__"}
Attributes == Handlers \cup Reentrant \cup Quiet \cup NotCallable

FirstArgs == Attributes \cup {"bogus", "-h"}

BranchVals == {<<"feature/y">>, <<"x", Q, "y">>}
RemoteVals == {<<"fork">>}
UrlVals == {<<"https://ci.example.com", "/", "teamcity">>}
GoalVals == {<<"test">>, <<"a", Q, "b">>}
MvnArgVals == {<<"-Dfoo">>}
JdkVals == {"ibmjdk-7", "jdk-9"}
ArgumentVals == {<<" -time=60">>}

Opt(S) == {<<>>} \cup {<<v>> : v \in S}

\* Command lines for the linux parser and for the har parser
LinuxSubArgs ==
    { [help |-> h, extra |-> e, user |-> u, password |-> p, branch |-> b,
       remote |-> r, teamcity |-> t, personal |-> pe,
       maven_goals |-> g, maven_args |-> a, jdk |-> j] :
        h \in BOOLEAN, e \in BOOLEAN, u \in Opt({"u"}), p \in Opt({"p"}),
        b \in Opt(BranchVals), r \in Opt(RemoteVals), t \in Opt(UrlVals),
        pe \in Opt({TRUE}), g \in Opt(GoalVals), a \in Opt(MvnArgVals),
        j \in Opt(JdkVals) }

HarSubArgs ==
    { [help |-> h, extra |-> e, user |-> u, password |-> p, branch |-> b,
       remote |-> r, teamcity |-> t, personal |-> pe, arguments |-> a] :
        h \in BOOLEAN, e \in BOOLEAN, u \in Opt({"u"}), p \in Opt({"p"}),
        b \in Opt(BranchVals), r \in Opt(RemoteVals), t \in Opt(UrlVals),
        pe \in Opt({TRUE}), a \in Opt(ArgumentVals) }

Statuses == {200, 204, 304, 404, 500}

Bodies ==
    { [text |-> "{\"webUrl\":\"http://ci/build/1\"}", type |-> "object",
       webUrl |-> <<"http://ci/build/1">>, repr |-> "{'webUrl': 'http://ci/build/1'}"],
      [text |-> "{\"message\":\"no\"}", type |-> "object",
       webUrl |-> <<>>, repr |-> "{'message': 'no'}"],
      [text |-> "boom", type |-> "invalid", webUrl |-> <<>>, repr |-> ""],
      [text |-> "", type |-> "invalid", webUrl |-> <<>>, repr |-> ""] }

ok_below_500(r) == r.status_code < 500

\* requests.Response.ok: raise_for_status raises for 400 <= status < 600 only
ok(r) == ~(400 <= r.status_code /\ r.status_code < 600)

----------------------------------------------------------------------------
(* Build presets *)

\* The dict literal of start_linux, in the order it is written
linux_props(mvngoals, mvnargs, jdk) ==
    << << <<"project-default-jdk">>, <<"%", jdk, "%">> >>,
       << <<"maven-goals">>, mvngoals >>,
       << <<"maven-args">>, mvnargs >> >>

ha_props(arguments) == << << <<"run-args">>, arguments >> >>

\* props.items(): the entries in the dict's iteration order, which is the
\* insertion order on current interpreters and unspecified on older ones.
items(d) == { [i \in 1..Len(d) |-> d[f[i]]] : f \in Permutations(1..Len(d)) }

\* r.post(urljoin(url, ...), auth=(user, password), headers=_HEADERS, data=data)
post(user, password, url, data) ==
    [url |-> urljoin(url, ENDPOINT), auth |-> <<user, password>>,
     headers |-> HEADERS, data |-> data]

Line(kind, val) == [kind |-> kind, val |-> val]

----------------------------------------------------------------------------
(* The script *)

NOARG == "<none>"
UNREAD == "<unread>"

Init ==
    /\ pc = "init"
    /\ depth = 0
    /\ first = UNREAD
    /\ handler = "none"
    /\ PARSER = PARSER0
    /\ subargs = <<>>
    /\ args = <<>>
    /\ posted = <<>>
    /\ resp = <<>>
    /\ stdout = <<>>
    /\ exitCode = -1
    /\ raised = "none"
    /\ calls = 1
    /\ fcall = [fn |-> "none"]
    /\ fret = <<>>

\* exit(code), reached through the builtin or through argparse
Exit(code, out) ==
    /\ pc' = "done"
    /\ exitCode' = code
    /\ stdout' = stdout \o out
    /\ raised' = raised

\* an exception nobody catches: traceback and exit status 1
Raise(exc, out) ==
    /\ pc' = "done"
    /\ exitCode' = 1
    /\ stdout' = stdout \o out
    /\ raised' = exc

\* TC.__init__: parse the first argument only and dispatch on it by name
Dispatch ==
    /\ pc = "init"
    /\ \E c \in FirstArgs \cup {NOARG} :
        /\ first' = IF first = UNREAD THEN c ELSE first
        /\ CASE c = NOARG ->
                  Exit(2, <<>>) /\ UNCHANGED <<depth, handler>>
             [] c = "-h" ->
                  Exit(0, <<Line("help", "usage")>>) /\ UNCHANGED <<depth, handler>>
             [] c \notin Attributes \cup {NOARG, "-h"} ->
                  /\ Exit(1, <<Line("unrecognized", c), Line("help", "usage")>>)
                  /\ UNCHANGED <<depth, handler>>
             [] c \in Handlers ->
                  /\ pc' = c
                  /\ handler' = c
                  /\ UNCHANGED <<depth, stdout, exitCode, raised>>
             [] c \in Reentrant ->
                  /\ depth < MaxDepth
                  /\ depth' = depth + 1
                  /\ UNCHANGED <<pc, handler, stdout, exitCode, raised>>
             [] c \in Quiet ->
                  /\ pc' = "returned"
                  /\ UNCHANGED <<depth, handler, stdout, exitCode, raised>>
             [] c \in NotCallable ->
                  Raise("TypeError", <<>>) /\ UNCHANGED <<depth, handler>>
    /\ UNCHANGED <<PARSER, subargs, args, posted, resp, calls, fcall, fret>>

\* TC.linux, through start_linux, up to the r.post call of send_request
Linux ==
    /\ pc = "linux"
    /\ LET p == parents2(PARSER, NEO4JPARSERBASE)
       IN  IF p = <<>>
           THEN /\ Raise("ArgumentError", <<>>)
                /\ UNCHANGED <<subargs, args, posted>>
           ELSE LET parser == add_argument(p[1], "jdk", FALSE)[1]
                IN  \E sub \in LinuxSubArgs :
                      LET r == parse_args(parser, Choices(LINUX_JDKS), sub)
                      IN  /\ subargs' = <<sub>>
                          /\ CASE r.kind = "help" ->
                                    /\ Exit(0, <<Line("help", "usage")>>)
                                    /\ UNCHANGED <<args, posted>>
                               [] r.kind = "error" ->
                                    Exit(2, <<>>) /\ UNCHANGED <<args, posted>>
                               [] r.kind = "ok" ->
                                    /\ args' = <<r.ns>>
                                    /\ \E its \in items(linux_props(r.ns.maven_goals,
                                                                    tc_mvn_args(r.ns.maven_args),
                                                                    r.ns.jdk)) :
                                         posted' = Append(posted,
                                            post(r.ns.user, r.ns.password, r.ns.teamcity,
                                                 request_xml(NEO4JLINUX_ID, r.ns.personal,
                                                             r.ns.branch, r.ns.remote,
                                                             <<dict_as_properties(its)>>)))
                                    /\ pc' = "await"
                                    /\ UNCHANGED <<stdout, exitCode, raised>>
    /\ UNCHANGED <<depth, first, handler, PARSER, resp, calls, fcall, fret>>

\* TC.har, through start_ha, up to the r.post call of send_request
Har ==
    /\ pc = "har"
    /\ LET g == add_argument(PARSER, "branch", TRUE)
       IN  IF g = <<>>
           THEN /\ Raise("ArgumentError", <<>>)
                /\ UNCHANGED <<PARSER, subargs, args, posted>>
           ELSE LET parser == add_argument(g[1], "arguments", FALSE)[1]
                IN  /\ PARSER' = g[1]
                    /\ \E sub \in HarSubArgs :
                         LET r == parse_args(parser, {}, sub)
                         IN  /\ subargs' = <<sub>>
                             /\ CASE r.kind = "help" ->
                                       /\ Exit(0, <<Line("help", "usage")>>)
                                       /\ UNCHANGED <<args, posted>>
                                  [] r.kind = "error" ->
                                       Exit(2, <<>>) /\ UNCHANGED <<args, posted>>
                                  [] r.kind = "ok" ->
                                       /\ args' = <<r.ns>>
                                       /\ \E its \in items(ha_props(r.ns.arguments)) :
                                            posted' = Append(posted,
                                               post(r.ns.user, r.ns.password, r.ns.teamcity,
                                                    request_xml(HAR_ID, r.ns.personal,
                                                                r.ns.branch, r.ns.remote,
                                                                <<dict_as_properties(its)>>)))
                                       /\ pc' = "await"
                                       /\ UNCHANGED <<stdout, exitCode, raised>>
    /\ UNCHANGED <<depth, first, handler, resp, calls, fcall, fret>>

\* send_request with a retry: a failed request is posted again
ReceiveRetry ==
    /\ pc = "await"
    /\ \E status \in Statuses, body \in Bodies :
         LET r == [status_code |-> status, body |-> body]
         IN  /\ resp' = <<r>>
             /\ IF ok(r)
                THEN IF body.type = "object"
                     THEN /\ stdout' = stdout \o
                               << Line("msg", "Build started. View status at"),
                                  Line("value", IF Given(body.webUrl) THEN body.webUrl[1]
                                                ELSE "None") >>
                          /\ pc' = "returned"
                          /\ UNCHANGED <<posted, exitCode, raised>>
                     ELSE /\ Raise("ValueError", <<Line("msg", "Build started. View status at")>>)
                          /\ UNCHANGED posted
                ELSE /\ stdout' = stdout \o
                          << Line("msg", "Could not start build:"),
                             Line("status", ToString(status)),
                             IF body.type = "invalid" THEN Line("text", body.text)
                             ELSE Line("json", body.repr) >>
                     /\ posted' = Append(posted, posted[Len(posted)])
                     /\ UNCHANGED <<pc, exitCode, raised>>
    /\ UNCHANGED <<depth, first, handler, PARSER, subargs, args, calls, fcall, fret>>

\* send_request from the response on
Receive ==
    /\ pc = "await"
    /\ \E status \in Statuses, body \in Bodies :
         LET r == [status_code |-> status, body |-> body]
         IN  /\ resp' = <<r>>
             /\ IF ok(r)
                THEN IF body.type = "object"
                     THEN /\ stdout' = stdout \o
                               << Line("msg", "Build started. View status at"),
                                  Line("value", IF Given(body.webUrl) THEN body.webUrl[1]
                                                ELSE "None") >>
                          /\ pc' = "returned"
                          /\ UNCHANGED <<exitCode, raised>>
                     ELSE Raise("ValueError", <<Line("msg", "Build started. View status at")>>)
                ELSE Exit(1, << Line("msg", "Could not start build:"),
                                Line("status", ToString(status)),
                                IF body.type = "invalid" THEN Line("text", body.text)
                                ELSE Line("json", body.repr) >>)
    /\ UNCHANGED <<depth, first, handler, PARSER, subargs, args, posted, calls, fcall, fret>>

\* TC(sys.argv[1:]) returned: the script ends
ScriptEnd ==
    /\ pc = "returned"
    /\ pc' = "done"
    /\ exitCode' = 0
    /\ UNCHANGED <<depth, first, handler, PARSER, subargs, args, posted, resp,
                   stdout, raised, calls, fcall, fret>>

Next == Dispatch \/ Linux \/ Har \/ Receive \/ ScriptEnd

Spec == Init /\ [][Next]_vars

----------------------------------------------------------------------------
(* The module used as a library: a caller constructs TC again after a call  *)
(* that returned.  posted, stdout and resp then describe the new call.      *)

CallTC ==
    /\ pc = "returned"
    /\ calls < MaxCalls
    /\ calls' = calls + 1
    /\ pc' = "init"
    /\ depth' = 0
    /\ first' = UNREAD
    /\ handler' = "none"
    /\ subargs' = <<>>
    /\ args' = <<>>
    /\ posted' = <<>>
    /\ resp' = <<>>
    /\ stdout' = <<>>
    /\ UNCHANGED <<PARSER, exitCode, raised, fcall, fret>>

NextLib == Next \/ CallTC

SpecLib == Init /\ [][NextLib]_vars

----------------------------------------------------------------------------
(* The functions of the module called on their own: one call, with any     *)
(* input, and its result.                                                  *)

PropNames == {<<"run-args">>, <<"maven-goals">>, <<"maven-args">>}

Distinct(m) == \A i, j \in 1..Len(m) : m[i][1] = m[j][1] => i = j

PropMaps == {m \in SeqsUpTo(PropNames \X Strings, MaxProps) : Distinct(m)}

RECURSIVE PathsUpTo(_)
PathsUpTo(n) ==
    IF n = 0 THEN {<<>>, <<"/">>}
    ELSE LET shorter == PathsUpTo(n - 1)
         IN  shorter \cup {<<"/", seg>> \o p : seg \in {"tc", "ci"},
                                               p \in {q \in shorter : q = <<>> \/ Len(q) > 1}}
                     \cup {<<"/", seg, "/">> : seg \in {"tc", "ci"}}

BaseUrls == {<<"https://build.neohq.net">> \o p : p \in PathsUpTo(MaxSegs)}

InitPure ==
    /\ pc = "pure"
    /\ depth = 0
    /\ first = UNREAD
    /\ handler = "none"
    /\ PARSER = PARSER0
    /\ subargs = <<>>
    /\ args = <<>>
    /\ posted = <<>>
    /\ resp = <<>>
    /\ stdout = <<>>
    /\ exitCode = -1
    /\ raised = "none"
    /\ calls = 0
    /\ fcall = [fn |-> "none"]
    /\ fret = <<>>

CallDictAsProperties ==
    /\ pc = "pure"
    /\ \E m \in PropMaps :
         /\ fcall' = [fn |-> "dict_as_properties", props |-> m]
         /\ fret' = dict_as_properties(m)
    /\ pc' = "called"
    /\ UNCHANGED <<depth, first, handler, PARSER, subargs, args, posted, resp,
                   stdout, exitCode, raised, calls>>

CallRequestXml ==
    /\ pc = "pure"
    /\ \E buildid \in {NEO4JLINUX_ID, HAR_ID, <<"X">>}, personal \in BOOLEAN,
          branch \in Strings \ {<<>>}, remote \in Strings \ {<<>>},
          props \in Opt({dict_as_properties(m) : m \in {x \in PropMaps : Len(x) <= 1}}) :
         /\ fcall' = [fn |-> "request_xml", buildid |-> buildid, personal |-> personal,
                      branch |-> branch, remote |-> remote, props |-> props]
         /\ fret' = request_xml(buildid, personal, branch, remote, props)
    /\ pc' = "called"
    /\ UNCHANGED <<depth, first, handler, PARSER, subargs, args, posted, resp,
                   stdout, exitCode, raised, calls>>

CallTcMvnArgs ==
    /\ pc = "pure"
    /\ \E original \in Strings :
         /\ fcall' = [fn |-> "tc_mvn_args", original |-> original]
         /\ fret' = tc_mvn_args(original)
    /\ pc' = "called"
    /\ UNCHANGED <<depth, first, handler, PARSER, subargs, args, posted, resp,
                   stdout, exitCode, raised, calls>>

\* the target send_request posts to for a base URL
CallUrljoin ==
    /\ pc = "pure"
    /\ \E url \in BaseUrls :
         /\ fcall' = [fn |-> "urljoin", url |-> url]
         /\ fret' = urljoin(url, ENDPOINT)
    /\ pc' = "called"
    /\ UNCHANGED <<depth, first, handler, PARSER, subargs, args, posted, resp,
                   stdout, exitCode, raised, calls>>

NextPure == CallDictAsProperties \/ CallRequestXml \/ CallTcMvnArgs \/ CallUrljoin

SpecPure == InitPure /\ [][NextPure]_vars

----------------------------------------------------------------------------
(* Reading a request back, as the server's XML parser does: an attribute    *)
(* value runs from its opening quote to the next quote.                     *)

RECURSIVE NextQuote(_, _)
NextQuote(text, i) ==
    IF i > Len(text) THEN 0
    ELSE IF text[i] = Q THEN i
    ELSE NextQuote(text, i + 1)

\* the attribute value whose opening quote is expected at position i
ReadAttr(text, i) ==
    IF i > Len(text) \/ text[i] # Q \/ NextQuote(text, i + 1) = 0
    THEN [ok |-> FALSE, val |-> <<>>, next |-> 0]
    ELSE [ok |-> TRUE, val |-> SubSeq(text, i + 1, NextQuote(text, i + 1) - 1),
          next |-> NextQuote(text, i + 1) + 1]

At(text, i, token) == i >= 1 /\ i <= Len(text) /\ text[i] = token

\* the property elements that make up text from position i on
RECURSIVE Elements(_, _)
Elements(text, i) ==
    IF i > Len(text) THEN [ok |-> TRUE, elems |-> <<>>]
    ELSE IF ~At(text, i, PROP_OPEN) THEN [ok |-> FALSE, elems |-> <<>>]
    ELSE LET name == ReadAttr(text, i + 1)
         IN  IF ~name.ok \/ ~At(text, name.next, PROP_VALUE)
             THEN [ok |-> FALSE, elems |-> <<>>]
             ELSE LET value == ReadAttr(text, name.next + 1)
                  IN  IF ~value.ok \/ ~At(text, value.next, PROP_CLOSE)
                      THEN [ok |-> FALSE, elems |-> <<>>]
                      ELSE LET rest == Elements(text, value.next + 1)
                           IN  [ok |-> rest.ok,
                                elems |-> <<(<<name.val, value.val>>)>> \o rest.elems]

PropertiesOf(fragment) == Elements(fragment, 1)

NoDocument == [ok |-> FALSE, personal |-> <<>>, branchName |-> <<>>, id |-> <<>>, props |-> <<>>]

\* the build element of a request document
Document(doc) ==
    IF ~At(doc, 1, BUILD_OPEN) \/ ~At(doc, Len(doc), BUILD_CLOSE) THEN NoDocument
    ELSE LET personal == ReadAttr(doc, 2)
         IN  IF ~personal.ok \/ ~At(doc, personal.next, BUILD_BRANCH) THEN NoDocument
             ELSE LET branch == ReadAttr(doc, personal.next + 1)
                  IN  IF ~branch.ok \/ ~At(doc, branch.next, BUILDTYPE_OPEN) THEN NoDocument
                      ELSE LET id == ReadAttr(doc, branch.next + 1)
                           IN  IF ~id.ok \/ ~At(doc, id.next, BUILDTYPE_CLOSE) THEN NoDocument
                               ELSE LET ps == Elements(SubSeq(doc, id.next + 1, Len(doc) - 1), 1)
                                    IN  [ok |-> ps.ok, personal |-> personal.val,
                                         branchName |-> branch.val, id |-> id.val,
                                         props |-> ps.elems]

Safe(text) == \A i \in 1..Len(text) : text[i] # Q

Implicit(remote, branch) == << << <<"remote">>, remote >>, << <<"branch">>, branch >> >>

Range(seq) == {seq[i] : i \in 1..Len(seq)}

Is2xx(status) == 200 <= status /\ status < 300

----------------------------------------------------------------------------
(* Properties *)

FailureOutput(r) ==
    /\ Len(stdout) = 3
    /\ stdout[1] = Line("msg", "Could not start build:")
    /\ stdout[2] = Line("status", ToString(r.status_code))
    /\ stdout[3] = IF r.body.type = "invalid" THEN Line("text", r.body.text)
                   ELSE Line("json", r.body.repr)

SuccessOutput(r) ==
    /\ Len(stdout) = 2
    /\ stdout[1] = Line("msg", "Build started. View status at")
    /\ stdout[2] = Line("value", IF Given(r.body.webUrl) THEN r.body.webUrl[1] ELSE "None")

C2_SuccessPrintsWebUrlAndExits0 ==
    (resp # <<>> /\ Is2xx(resp[1].status_code)) =>
        /\ SuccessOutput(resp[1])
        /\ raised = "none"
        /\ pc \in {"returned", "done"}
        /\ (pc = "done" => exitCode = 0)

\* What holds instead of C2: a 2xx response whose body is a JSON object.
JsonSuccessPrintsWebUrlAndExits0 ==
    (resp # <<>> /\ Is2xx(resp[1].status_code) /\ resp[1].body.type = "object") =>
        /\ SuccessOutput(resp[1])
        /\ raised = "none"
        /\ pc \in {"returned", "done"}
        /\ (pc = "done" => exitCode = 0)

\* C3: a run that reaches submission issues exactly one POST, whatever the
\* response: never a retry after a failure, never a second request.
C3_ExactlyOnePost ==
    /\ Len(posted) <= 1
    /\ (args # <<>> => Len(posted) = 1)
    /\ (resp # <<>> => Len(posted) = 1)
    /\ (posted # <<>> => args # <<>>)

C3_Witness_FailedRequestNotRetried ==
    /\ pc = "done"
    /\ exitCode = 1
    /\ resp # <<>>
    /\ resp[1].status_code = 500
    /\ Len(posted) = 1

StripSlash(url) == IF url[Len(url)] = "/" THEN SubSeq(url, 1, Len(url) - 1) ELSE url

\* C4: for every base URL, with or without a path and a trailing slash, the
\* POST goes to the base URL followed by /httpAuth/app/rest/buildQueue.
C4_TargetIsBasePlusEndpoint ==
    (pc = "called" /\ fcall.fn = "urljoin") =>
        fret = StripSlash(fcall.url) \o <<"/">> \o ENDPOINT

\* What holds instead of C4: base URLs without a path or ending in a slash.
TargetOfSlashTerminatedBase ==
    (pc = "called" /\ fcall.fn = "urljoin"
       /\ (Len(fcall.url) = 1 \/ fcall.url[Len(fcall.url)] = "/")) =>
        fret = StripSlash(fcall.url) \o <<"/">> \o ENDPOINT

\* C5: for every input, the document request_xml returns has the personal
\* attribute "true" or "false" as the flag says, branchName equal to the
\* branch, the buildType id equal to buildid, and as its properties remote and
\* branch, in this order and with the given values, followed by the supplied ones.
C5_RequestXmlCarriesItsInputs ==
    (pc = "called" /\ fcall.fn = "request_xml"
       /\ (fcall.props # <<>> => PropertiesOf(fcall.props[1]).ok)) =>
        LET doc == Document(fret)
            supplied == IF fcall.props = <<>> THEN <<>>
                        ELSE PropertiesOf(fcall.props[1]).elems
        IN  /\ doc.ok
            /\ doc.personal = (IF fcall.personal THEN <<"true">> ELSE <<"false">>)
            /\ doc.branchName = fcall.branch
            /\ doc.id = fcall.buildid
            /\ doc.props = Implicit(fcall.remote, fcall.branch) \o supplied

\* What holds instead of C5: inputs without a double quote.
SafeRequestXmlCarriesItsInputs ==
    (pc = "called" /\ fcall.fn = "request_xml"
       /\ Safe(fcall.branch) /\ Safe(fcall.remote)
       /\ (fcall.props # <<>> => PropertiesOf(fcall.props[1]).ok)) =>
        LET doc == Document(fret)
            supplied == IF fcall.props = <<>> THEN <<>>
                        ELSE PropertiesOf(fcall.props[1]).elems
        IN  /\ doc.ok
            /\ doc.personal = (IF fcall.personal THEN <<"true">> ELSE <<"false">>)
            /\ doc.branchName = fcall.branch
            /\ doc.id = fcall.buildid
            /\ doc.props = Implicit(fcall.remote, fcall.branch) \o supplied

\* C6: for every property map, dict_as_properties returns exactly one property
\* element per entry, the i-th carrying the name and the value of the i-th
\* entry; the empty map gives the empty fragment.
C6_OneElementPerEntry ==
    (pc = "called" /\ fcall.fn = "dict_as_properties") =>
        /\ PropertiesOf(fret).ok
        /\ PropertiesOf(fret).elems = fcall.props
        /\ (fcall.props = <<>> => fret = <<>>)

\* What holds instead of C6: maps whose values hold no double quote.
SafeOneElementPerEntry ==
    (pc = "called" /\ fcall.fn = "dict_as_properties"
       /\ \A i \in 1..Len(fcall.props) : Safe(fcall.props[i][2])) =>
        /\ PropertiesOf(fret).ok
        /\ PropertiesOf(fret).elems = fcall.props
        /\ (fcall.props = <<>> => fret = <<>>)

\* C7: only linux and har dispatch to a handler: every other first argument
\* is reported as unrecognized, reaches no handler, sends no request and ends
\* the process with exit status 1.
C7_OnlyLinuxAndHarDispatch ==
    (first \notin Handlers \cup {UNREAD, NOARG, "-h"}) =>
        /\ handler = "none"
        /\ posted = <<>>
        /\ (pc \in {"returned", "done"} =>
               /\ pc = "done"
               /\ exitCode = 1
               /\ raised = "none"
               /\ \E i \in 1..Len(stdout) : stdout[i] = Line("unrecognized", first))

\* What holds instead of C7: first arguments that name no attribute of TC.
UnknownNameIsRejected ==
    (first \notin Attributes \cup {UNREAD, NOARG, "-h"}) =>
        /\ handler = "none"
        /\ posted = <<>>
        /\ (pc \in {"returned", "done"} =>
               /\ pc = "done"
               /\ exitCode = 1
               /\ raised = "none"
               /\ \E i \in 1..Len(stdout) : stdout[i] = Line("unrecognized", first))

LinuxExpected(ns) ==
    { << <<"project-default-jdk">>, <<"%", ns.jdk, "%">> >>,
      << <<"maven-goals">>, ns.maven_goals >>,
      << <<"maven-args">>, <<MVN_PREFIX>> \o ns.maven_args >> }

\* C8: every linux invocation submits the Linux buildTypeId with exactly the
\* three properties project-default-jdk = %jdk%, maven-goals = the goals as
\* given, maven-args = the fixed prefix, once, followed by the given arguments.
C8_LinuxRequestCarriesThreeProperties ==
    (handler = "linux" /\ posted # <<>>) =>
        LET doc == Document(posted[1].data)
        IN  /\ doc.ok
            /\ doc.id = NEO4JLINUX_ID
            /\ Len(doc.props) = 5
            /\ Range(SubSeq(doc.props, 3, 5)) = LinuxExpected(args[1])

\* What holds instead of C8: invocations whose strings hold no double quote.
SafeLinuxRequestCarriesThreeProperties ==
    (handler = "linux" /\ posted # <<>>
       /\ Safe(args[1].branch) /\ Safe(args[1].remote)
       /\ Safe(args[1].maven_goals) /\ Safe(args[1].maven_args)) =>
        LET doc == Document(posted[1].data)
        IN  /\ doc.ok
            /\ doc.id = NEO4JLINUX_ID
            /\ Len(doc.props) = 5
            /\ Range(SubSeq(doc.props, 3, 5)) = LinuxExpected(args[1])

Missing(sub) == ~Given(sub.user) \/ ~Given(sub.password) \/ ~Given(sub.branch)

\* C9 as stated: a POST is issued only after the arguments parsed; a linux or
\* har invocation that lacks --user, --password or --branch, and an invocation
\* without a subcommand, send no request and end with a non-zero exit status.
C9_MissingArgumentExitsNonZero ==
    /\ (posted # <<>> => (args # <<>> /\ ~Missing(subargs[1])))
    /\ ((subargs # <<>> /\ Missing(subargs[1])) =>
            (posted = <<>> /\ pc = "done" /\ exitCode # 0))
    /\ (first = NOARG => (posted = <<>> /\ pc = "done" /\ exitCode # 0))

\* C9 as amended: the same, except that an invocation asking for the handler's
\* help (-h) ends with exit status 0, still without a request.
C9_MissingArgumentSendsNothing ==
    /\ (posted # <<>> =>
            (args # <<>> /\ ~Missing(subargs[1]) /\ ~subargs[1].help /\ ~subargs[1].extra))
    /\ ((subargs # <<>> /\ Missing(subargs[1])) =>
            /\ posted = <<>>
            /\ pc = "done"
            /\ exitCode = (IF subargs[1].help THEN 0 ELSE 2))
    /\ (first = NOARG => (posted = <<>> /\ pc = "done" /\ exitCode = 2))

C9_Witness_MissingPassword ==
    /\ handler = "har"
    /\ subargs # <<>>
    /\ Given(subargs[1].user) /\ Given(subargs[1].branch) /\ ~Given(subargs[1].password)
    /\ ~subargs[1].help
    /\ pc = "done"
    /\ exitCode = 2
    /\ posted = <<>>

\* C10: handling a subcommand leaves the shared parser definitions as they
\* were, so that every later dispatch in the process meets the same options.
C10_SharedParsersUnchanged == [][PARSER' = PARSER]_vars

\* What the change of _PARSER leads to: a dispatch after har fails in argparse
NoArgumentError == raised # "ArgumentError"

====
